---- MODULE Spec2Model ----
(***************************************************************************)
(* A model of fileseq.py (PyFileSeq): the FileSequence value type and the  *)
(* sequence finder FileSequence.find_in_list.                              *)
(*                                                                         *)
(* File names are Python 2 byte strings; they are modelled as sequences of *)
(* ASCII codes so that list.sort() (byte-wise lexicographic order), the    *)
(* digit-run tokenizer, int(), str() and zfill() are computed the way the  *)
(* interpreter computes them.                                              *)
(***************************************************************************)
EXTENDS Integers, Sequences, FiniteSets, TLC

VARIABLES
    pc,           \* position in find_in_list: "start", "loop", "done", "OverflowError"
    input,        \* the names in the caller's list when find_in_list was called
    entries,      \* the list object passed to find_in_list (the caller's list)
    sequences,    \* local list `sequences' of find_in_list
    other_files,  \* local list `other_files' of find_in_list
    self,         \* a FileSequence object whose methods are called
    ret           \* outcome of the last method call on self

vars == <<pc, input, entries, sequences, other_files, self, ret>>

----------------------------------------------------------------------------
(* Bounds *)

MaxNames == 5     \* largest set of names handed to find_in_list
MaxShuffled == 3  \* longest input list taken in every order
MaxNum == 11      \* largest first/last of a directly constructed FileSequence
MaxPad == 3       \* largest padding of a directly constructed FileSequence
MaxKey == 4       \* largest |key| passed to __getitem__

----------------------------------------------------------------------------
(* Characters and strings *)

Ascii ==
    ("0" :> 48) @@ ("1" :> 49) @@ ("2" :> 50) @@ ("3" :> 51) @@ ("4" :> 52) @@
    ("5" :> 53) @@ ("6" :> 54) @@ ("7" :> 55) @@ ("8" :> 56) @@ ("9" :> 57) @@
    ("." :> 46) @@ ("a" :> 97) @@ ("b" :> 98) @@ ("d" :> 100) @@ ("e" :> 101) @@
    ("f" :> 102) @@ ("g" :> 103) @@ ("m" :> 109) @@ ("n" :> 110) @@
    ("p" :> 112) @@ ("r" :> 114) @@ ("t" :> 116) @@ ("x" :> 120)

\* The byte string spelled by a tuple of one-character strings.
S(chars) == [i \in 1..Len(chars) |-> Ascii[chars[i]]]

Zero == Ascii["0"]
Nine == Ascii["9"]

IsDigit(c) == c >= Zero /\ c <= Nine

Range(s) == {s[i] : i \in 1..Len(s)}

Front(s) == SubSeq(s, 1, Len(s) - 1)

Last(s) == s[Len(s)]

\* a < b in the byte-wise lexicographic order used by list.sort() on str
RECURSIVE LexLess(_, _)
LexLess(a, b) ==
    IF b = <<>> THEN FALSE
    ELSE IF a = <<>> THEN TRUE
    ELSE IF Head(a) # Head(b) THEN Head(a) < Head(b)
    ELSE LexLess(Tail(a), Tail(b))

\* ''.join(list)
RECURSIVE Join(_)
Join(list) == IF list = <<>> THEN <<>> ELSE Head(list) \o Join(Tail(list))

\* int(s) for a non-empty string of decimal digits
RECURSIVE int(_)
int(s) == IF s = <<>> THEN 0 ELSE int(Front(s)) * 10 + (Last(s) - Zero)

\* str(n) for an integer n >= 0
RECURSIVE str(_)
str(n) == IF n < 10 THEN <<Zero + n>> ELSE str(n \div 10) \o <<Zero + (n % 10)>>

\* a zfill that keeps only the last width characters of a longer string
ZfillTruncating(s, width) ==
    IF Len(s) >= width /\ width > 0 THEN SubSeq(s, Len(s) - width + 1, Len(s))
    ELSE [i \in 1..(width - Len(s)) |-> Zero] \o s

\* s.zfill(width) for an unsigned digit string s: pads on the left with "0"
\* up to width, and returns s itself when it is already that long.
Zfill(s, width) ==
    IF Len(s) >= width THEN s
    ELSE [i \in 1..(width - Len(s)) |-> Zero] \o s

\* NUMBER_PATTERN.split(entry): the alternating list literal, digits,
\* literal, ..., literal.  Components at even (1-based) positions are the
\* maximal digit runs; the first and last literal may be empty.
RECURSIVE SplitFrom(_, _)
SplitFrom(comps, rest) ==
    IF rest = <<>>
    THEN IF Len(comps) % 2 = 0 THEN Append(comps, <<>>) ELSE comps
    ELSE LET c == Head(rest)
             n == Len(comps)
             inDigits == (n % 2 = 0)
         IN IF IsDigit(c) = inDigits
            THEN SplitFrom([comps EXCEPT ![n] = Append(@, c)], Tail(rest))
            ELSE SplitFrom(Append(comps, <<c>>), Tail(rest))

Split(entry) == SplitFrom(<< <<>> >>, entry)

\* list.sort(): insertion into an ascending list
RECURSIVE Insert(_, _)
Insert(x, sorted) ==
    IF sorted = <<>> THEN <<x>>
    ELSE IF LexLess(Head(sorted), x) THEN <<Head(sorted)>> \o Insert(x, Tail(sorted))
    ELSE <<x>> \o sorted

RECURSIVE Sorted(_)
Sorted(list) == IF list = <<>> THEN <<>> ELSE Insert(Head(list), Sorted(Tail(list)))

\* `x in list'
In(x, list) == x \in Range(list)

\* a remove that leaves the list as it is
RemoveNothing(list, x) == list

\* list.remove(x): drops the first occurrence of x

RECURSIVE Remove(_, _)
Remove(list, x) ==
    IF list = <<>> THEN <<>>
    ELSE IF Head(list) = x THEN Tail(list)
    ELSE <<Head(list)>> \o Remove(Tail(list), x)

----------------------------------------------------------------------------
(* xrange() and the native C long *)

\* sys.maxint of an LP64 build of CPython 2 (2^63 - 1), as a decimal string
SysMaxInt == S(<<"9","2","2","3","3","7","2","0","3","6","8","5","4","7","7","5","8","0","7">>)

\* the decimal string without its leading zeros
RECURSIVE StripZeros(_)
StripZeros(s) == IF Len(s) > 1 /\ Head(s) = Zero THEN StripZeros(Tail(s)) ELSE s

\* decimal string of the value + 1
RECURSIVE Inc(_)
Inc(d) ==
    IF d = <<>> THEN <<Zero + 1>>
    ELSE IF Last(d) < Nine THEN Append(Front(d), Last(d) + 1)
    ELSE Append(Inc(Front(d)), Zero)

RECURSIVE AddSmall(_, _)
AddSmall(d, k) == IF k = 0 THEN d ELSE AddSmall(Inc(d), k - 1)

\* a <= b for decimal strings without leading zeros
DecLeq(a, b) == Len(a) < Len(b) \/ (Len(a) = Len(b) /\ ~LexLess(b, a))

\* xrange(number + 1, number + poolLen + 1) and xrange(number - 1, 0, -1)
\* accept their arguments only when they fit a C long; otherwise
\* OverflowError is raised.  token is the digit run, number = int(token);
\* the largest argument is number + poolLen + 1.  The comparison is made on
\* decimal strings, since such digit runs exceed 32-bit arithmetic; the
\* names of Universe have digit runs that are either small or beyond
\* sys.maxint.
XrangeAccepts(token, poolLen) ==
    DecLeq(AddSmall(StripZeros(token), poolLen + 1), SysMaxInt)

----------------------------------------------------------------------------
(* class FileSequence *)

\* FileSequence(path, head, tail, first, last, padding); path is always
\* stored as "" and is not used by the operations modelled here.
FileSequence(head, tail, first, last, padding) ==
    [head |-> head, tail |-> tail, first |-> first, last |-> last,
     padding |-> padding]

\* outcomes of a method call
Returns(value) == [raised |-> "", value |-> value]
Raises(error) == [raised |-> error, value |-> <<>>]

\* FileSequence.__len__
Length(seq) == (seq.last - seq.first) + 1

\* a filename that forgets the zero padding
FilenameUnpadded(seq, number) ==
    IF number >= seq.first /\ number <= seq.last
    THEN Returns(Join(<<seq.head, str(number), seq.tail>>))
    ELSE Raises("IndexError")

\* FileSequence.filename(number)
Filename(seq, number) ==
    IF number >= seq.first /\ number <= seq.last
    THEN Returns(Join(<<seq.head, Zfill(str(number), seq.padding), seq.tail>>))
    ELSE Raises("IndexError")

\* a __getitem__ whose negative keys count from last instead of last + 1
GetItemOffByOne(seq, key) ==
    IF key >= 0
    THEN Filename(seq, seq.first + key)
    ELSE Filename(seq, seq.last - (key * (-1)))

\* FileSequence.__getitem__(key) for an integer key
GetItem(seq, key) ==
    IF key >= 0
    THEN Filename(seq, seq.first + key)
    ELSE Filename(seq, seq.last - (key * (-1)) + 1)

\* FileSequence.__iter__: the names yielded, in order
Iterate(seq) ==
    [k \in 1..(seq.last - seq.first + 1) |-> Filename(seq, seq.first + k - 1).value]

----------------------------------------------------------------------------
(* FileSequence.find_in_list *)

\* the name adjacent_files yields for n: components with the digit run at
\* index replaced by str(n).zfill(padding)
AdjacentName(components, index, padding, n) ==
    Join([components EXCEPT ![index] = Zfill(str(n), padding)])

\* padding of a digit run: its length when it starts with "0", else 0
PaddingOf(token) == IF Head(token) = Zero THEN Len(token) ELSE 0

\* an upper-bound loop that goes on after a miss instead of breaking
RECURSIVE ForwardScanSkipping(_, _, _, _, _, _, _)
ForwardScanSkipping(components, i, padding, n, stop, pool, last) ==
    IF n >= stop THEN [pool |-> pool, last |-> last]
    ELSE LET filename == AdjacentName(components, i, padding, n)
         IN IF In(filename, pool)
            THEN ForwardScanSkipping(components, i, padding, n + 1, stop,
                                     Remove(pool, filename), n)
            ELSE ForwardScanSkipping(components, i, padding, n + 1, stop, pool, last)

\* the upper-bound loop: n runs over xrange(number + 1, number + len(entries) + 1),
\* whose end `stop' is fixed when the generator starts
RECURSIVE ForwardScan(_, _, _, _, _, _, _)
ForwardScan(components, i, padding, n, stop, pool, last) ==
    IF n >= stop THEN [pool |-> pool, last |-> last]
    ELSE LET filename == AdjacentName(components, i, padding, n)
         IN IF In(filename, pool)
            THEN ForwardScan(components, i, padding, n + 1, stop,
                             Remove(pool, filename), n)
            ELSE [pool |-> pool, last |-> last]

\* the lower-bound loop: n runs over xrange(number - 1, 0, -1)
RECURSIVE BackwardScan(_, _, _, _, _, _)
BackwardScan(components, i, padding, n, pool, first) ==
    IF n <= 0 THEN [pool |-> pool, first |-> first]
    ELSE LET filename == AdjacentName(components, i, padding, n)
         IN IF In(filename, pool)
            THEN BackwardScan(components, i, padding, n - 1,
                              Remove(pool, filename), n)
            ELSE [pool |-> pool, first |-> first]

\* a test that accepts every range, one name long or not
LooksLikeSequenceAlways(first, last) == TRUE

\* the test `if (first - last)' that accepts a range as a sequence

LooksLikeSequence(first, last) == (first - last) # 0

\* a start at the first digit run instead of the last
StartIndexLeftmost(components) == IF Len(components) >= 3 THEN 2 ELSE 0

\* the first digit run tried as the counter: range(len(components) - 2, 0, -2)
\* starts at the last digit run (1-based index len - 1)

StartIndex(components) == Len(components) - 1

\* the loop `for i in range(len(components) - 2, 0, -2)' from digit run i
\* (1-based) leftwards.  The result holds the pool left by the scans, the
\* sequence found (<<>> stands for None) and the exception raised, if any.
RECURSIVE TryFields(_, _, _)
TryFields(components, i, pool) ==
    IF i < 2 \/ i > Len(components)
    THEN [sequence |-> <<>>, pool |-> pool, raised |-> ""]
    ELSE IF ~XrangeAccepts(components[i], Len(pool))
    THEN [sequence |-> <<>>, pool |-> pool, raised |-> "OverflowError"]
    ELSE LET number == int(components[i])
             padding == PaddingOf(components[i])
             up == ForwardScan(components, i, padding, number + 1,
                               number + Len(pool) + 1, pool, number)
             down == BackwardScan(components, i, padding, number - 1,
                                  up.pool, number)
         IN IF LooksLikeSequence(down.first, up.last)
            THEN [sequence |-> <<FileSequence(Join(SubSeq(components, 1, i - 1)),
                                              Join(SubSeq(components, i + 1, Len(components))),
                                              down.first, up.last, padding)>>,
                  pool |-> down.pool, raised |-> ""]
            ELSE TryFields(components, i - 2, down.pool)

\* one pass of `while entries:' (lines 174-243) on the working lists
LoopBody(ents, seqs, others) ==
    LET entry == Head(ents)
        components == Split(entry)
        found == TryFields(components, StartIndex(components), Tail(ents))
    IN IF found.raised # ""
       THEN [entries |-> found.pool, sequences |-> seqs, other_files |-> others,
             raised |-> found.raised]
       ELSE IF found.sequence # <<>>
       THEN [entries |-> found.pool, sequences |-> seqs \o found.sequence,
             other_files |-> others, raised |-> ""]
       ELSE [entries |-> found.pool, sequences |-> seqs,
             other_files |-> Append(others, entry), raised |-> ""]

\* the while loop run to its end
RECURSIVE WhileEntries(_, _, _)
WhileEntries(ents, seqs, others) ==
    IF ents = <<>>
    THEN [entries |-> ents, sequences |-> seqs, other_files |-> others, raised |-> ""]
    ELSE LET r == LoopBody(ents, seqs, others)
         IN IF r.raised # "" THEN r
            ELSE WhileEntries(r.entries, r.sequences, r.other_files)

\* find_in_list(list) as a function of the list it is given
FindInList(list) == WhileEntries(Sorted(list), <<>>, <<>>)

----------------------------------------------------------------------------
(* Inputs *)

Universe ==
    { S(<<"0","9","9","8">>), S(<<"0","9","9","9">>), S(<<"1","0","0","0">>),
      S(<<"9","9","9">>),
      S(<<"a",".","0","1",".","e","x","t">>), S(<<"a",".","0","2",".","e","x","t">>),
      S(<<"a",".","0","3",".","e","x","t">>), S(<<"a",".","0","4",".","e","x","t">>),
      S(<<"f","r","a","m","e","5",".","p","n","g">>),
      S(<<"r","e","a","d","m","e">>),
      S(<<"a","0","1","b","5">>), S(<<"a","0","1","b","6">>), S(<<"a","0","2","b","5">>),
      S(<<"1","2","3","4","5","6","7","8","9","0","1","2","3","4","5","6","7","8","9","0">>) }

\* the lists without repetition of at most k names, in every order
RECURSIVE ListsUpTo(_)
ListsUpTo(k) ==
    IF k = 0 THEN {<<>>}
    ELSE LET shorter == ListsUpTo(k - 1)
         IN shorter \cup UNION {{Append(l, n) : n \in Universe \ Range(l)} : l \in shorter}

\* the ascending lists of at most k names: one list per set of names
RECURSIVE AscendingUpTo(_)
AscendingUpTo(k) ==
    IF k = 0 THEN {<<>>}
    ELSE LET shorter == AscendingUpTo(k - 1)
         IN shorter \cup
            UNION {{Append(l, n) : n \in {m \in Universe : l = <<>> \/ LexLess(Last(l), m)}} :
                   l \in shorter}

Reverse(l) == [i \in 1..Len(l) |-> l[Len(l) + 1 - i]]

\* a directory of single-digit-run names: 0 .. 10 together with 09,
\* with and without the name "0"
Units == [k \in 1..9 |-> str(k)]

LongInputs ==
    { <<str(0)>> \o Units \o <<str(10), S(<<"0", "9">>)>>,
      Units \o <<str(10), S(<<"0", "9">>)>> }

\* the lists handed to find_in_list: every order of up to MaxShuffled names,
\* every set of up to MaxNames names in ascending and in descending order,
\* and the long inputs
InputLists ==
    ListsUpTo(MaxShuffled)
    \cup AscendingUpTo(MaxNames)
    \cup {Reverse(l) : l \in AscendingUpTo(MaxNames)}
    \cup LongInputs

HeadsTails == { <<S(<<>>), S(<<>>)>>, <<S(<<"a", ".">>), S(<<".", "e", "x", "t">>)>> }

NoObject == FileSequence(<<>>, <<>>, 0, 0, 0)
NoCall == [op |-> "", arg |-> 0, raised |-> "", value |-> <<>>]

----------------------------------------------------------------------------
(* find_in_list as a state machine *)

Init ==
    /\ input \in InputLists
    /\ entries = input
    /\ pc = "start"
    /\ sequences = <<>>
    /\ other_files = <<>>
    /\ self = NoObject
    /\ ret = NoCall

\* entries.sort()
Sort ==
    /\ pc = "start"
    /\ entries' = Sorted(entries)
    /\ pc' = "loop"
    /\ UNCHANGED <<input, sequences, other_files, self, ret>>

\* one iteration of the while loop
Pass ==
    /\ pc = "loop"
    /\ entries # <<>>
    /\ LET r == LoopBody(entries, sequences, other_files)
       IN /\ entries' = r.entries
          /\ sequences' = r.sequences
          /\ other_files' = r.other_files
          /\ pc' = IF r.raised # "" THEN r.raised ELSE "loop"
    /\ UNCHANGED <<input, self, ret>>

\* return sequences, other_files
Return ==
    /\ pc = "loop"
    /\ entries = <<>>
    /\ pc' = "done"
    /\ UNCHANGED <<input, entries, sequences, other_files, self, ret>>

Next == Sort \/ Pass \/ Return

Spec == Init /\ [][Next]_vars

----------------------------------------------------------------------------
(* Method calls on a FileSequence *)

InitSeq ==
    /\ \E ht \in HeadsTails, first \in 0..MaxNum, last \in 0..MaxNum, padding \in 0..MaxPad :
          self = FileSequence(ht[1], ht[2], first, last, padding)
    /\ ret = NoCall
    /\ pc = "idle"
    /\ input = <<>>
    /\ entries = <<>>
    /\ sequences = <<>>
    /\ other_files = <<>>

CallFilename ==
    /\ \E number \in 0..(MaxNum + 1) :
          ret' = [op |-> "filename", arg |-> number] @@ Filename(self, number)
    /\ UNCHANGED <<pc, input, entries, sequences, other_files, self>>

CallGetItem ==
    /\ \E key \in (-MaxKey)..MaxKey :
          ret' = [op |-> "getitem", arg |-> key] @@ GetItem(self, key)
    /\ UNCHANGED <<pc, input, entries, sequences, other_files, self>>

NextSeq == CallFilename \/ CallGetItem

SpecSeq == InitSeq /\ [][NextSeq]_vars

----------------------------------------------------------------------------
(* Vocabulary of the properties *)

\* the set of names a sequence enumerates
Covered(seq) == Range(Iterate(seq))

\* the number of places where a name is reported: once per (sequence, n)
\* that enumerates it and once per occurrence in other_files
Places(name) ==
    Cardinality(UNION {{<<i, n>> : n \in {m \in sequences[i].first..sequences[i].last :
                                              Filename(sequences[i], m).value = name}} :
                       i \in DOMAIN sequences})
    + Cardinality({j \in DOMAIN other_files : other_files[j] = name})

\* the digit runs of a split name
Runs(components) == {i \in 1..Len(components) : i % 2 = 0}

\* run i of components has a neighbour in pool: the name with value + 1, or
\* the name with value - 1 when that is at least 1
HasNeighbour(components, i, pool) ==
    LET n == int(components[i])
        p == PaddingOf(components[i])
    IN \/ In(AdjacentName(components, i, p, n + 1), pool)
       \/ (n - 1 >= 1 /\ In(AdjacentName(components, i, p, n - 1), pool))

RECURSIVE NumDigits(_)
NumDigits(n) == IF n < 10 THEN 1 ELSE 1 + NumDigits(n \div 10)

Max(a, b) == IF a >= b THEN a ELSE b

\* names used by the examples
N0998 == S(<<"0","9","9","8">>)
N0999 == S(<<"0","9","9","9">>)
N1000 == S(<<"1","0","0","0">>)
N999 == S(<<"9","9","9">>)
A01 == S(<<"a",".","0","1",".","e","x","t">>)
A02 == S(<<"a",".","0","2",".","e","x","t">>)
A04 == S(<<"a",".","0","4",".","e","x","t">>)
Frame5 == S(<<"f","r","a","m","e","5",".","p","n","g">>)

----------------------------------------------------------------------------
(* Properties of find_in_list *)

\* C1: when find_in_list has returned, every input name is reported in
\* exactly one place: it is enumerated by exactly one (sequence, n) with n
\* in first..last, or it occurs exactly once in other_files, never both.
C1_PartitionCompleteness ==
    pc = "done" => \A name \in Range(input) : Places(name) = 1

C1_Witness ==
    /\ pc = "done"
    /\ Len(input) >= 3
    /\ sequences # <<>>
    /\ other_files # <<>>

\* C2: the list passed to find_in_list holds the same names in the same
\* order after the call as before it.
C2_InputNotMutated ==
    pc = "done" => entries = input

\* C3: when find_in_list has returned, running find_in_list on exactly the
\* names enumerated by any returned sequence returns that same sequence
\* (head, tail, first, last, padding) alone, and no other files.
C3_RoundTrip ==
    pc = "done" =>
        \A i \in DOMAIN sequences :
            LET again == FindInList(Iterate(sequences[i]))
            IN /\ again.raised = ""
               /\ again.sequences = <<sequences[i]>>
               /\ again.other_files = <<>>

C3_Witness ==
    /\ pc = "done"
    /\ \E i \in DOMAIN sequences :
          /\ sequences[i].padding > 0
          /\ Length(sequences[i]) >= 3
          /\ NumDigits(sequences[i].last) >= sequences[i].padding

\* C4: when find_in_list has returned, for every input name with a single
\* digit run that is zero-padded (leading 0, width p, value n) such that the
\* name with that run replaced by n + 1 rendered to width p is in the input
\* too, one returned sequence of padding p enumerates both names; and
\* {0998, 0999, 1000} yields the single sequence 998-1000 of padding 4,
\* {999, 0999, 1000} the sequence 999-1000 of padding 4 with 999 in others.
C4_PaddedPreferred ==
    pc = "done" =>
        /\ \A name \in Range(input) :
              LET components == Split(name)
                  p == Len(components[2])
              IN (Len(components) = 3 /\ Head(components[2]) = Zero) =>
                    LET next == AdjacentName(components, 2, p, int(components[2]) + 1)
                    IN next \in Range(input) =>
                          \E i \in DOMAIN sequences :
                              /\ sequences[i].padding = p
                              /\ {name, next} \subseteq Covered(sequences[i])
        /\ Range(input) = {N0998, N0999, N1000} =>
              /\ sequences = <<FileSequence(<<>>, <<>>, 998, 1000, 4)>>
              /\ other_files = <<>>
        /\ Range(input) = {N999, N0999, N1000} =>
              /\ sequences = <<FileSequence(<<>>, <<>>, 999, 1000, 4)>>
              /\ other_files = <<N999>>

C7_GapBreaksSequence ==
    pc = "done" =>
        /\ \A i \in DOMAIN sequences : Covered(sequences[i]) \subseteq Range(input)
        /\ Range(input) = {A01, A02, A04} =>
              /\ sequences = <<FileSequence(S(<<"a", ".">>), S(<<".", "e", "x", "t">>), 1, 2, 2)>>
              /\ other_files = <<A04>>

C7_Witness ==
    /\ pc = "done"
    /\ Range(input) = {A01, A02, A04}
    /\ Len(sequences) = 1

\* C9: when a pass records a sequence for the popped entry, the sequence
\* uses the rightmost digit run of the entry that has a neighbour in the
\* pool as it was when the entry was popped; its head is the concatenation
\* of the components before that run and its tail that of the components
\* after it; and every name the pass removed from the pool differs from the
\* entry in that run only.
C9_RightmostRunWithNeighbour ==
    [][(pc = "loop" /\ entries # <<>> /\ Len(sequences') = Len(sequences) + 1) =>
        LET entry == Head(entries)
            pool == Tail(entries)
            components == Split(entry)
            found == sequences'[Len(sequences')]
        IN \E i \in Runs(components) :
              /\ HasNeighbour(components, i, pool)
              /\ \A j \in Runs(components) : j > i => ~HasNeighbour(components, j, pool)
              /\ found.head = Join(SubSeq(components, 1, i - 1))
              /\ found.tail = Join(SubSeq(components, i + 1, Len(components)))
              /\ \A name \in Range(pool) \ Range(entries') :
                    LET other == Split(name)
                    IN /\ Len(other) = Len(components)
                       /\ \A j \in 1..Len(components) : j # i => other[j] = components[j]]_vars

C9_Witness ==
    /\ pc = "done"
    /\ \E i \in DOMAIN sequences : \E k \in DOMAIN sequences[i].tail :
          IsDigit(sequences[i].tail[k])
    /\ \E name \in Range(input) : Len(Split(name)) >= 5

\* C10: find_in_list has no failure outcome: it is always at its sort, in
\* its loop or returned, never stopped by an exception; every completed pass
\* has removed at least one name from the pool (the pool and the results
\* recorded so far never outnumber the input); and it returns with the pool
\* empty.
C10_AlwaysReturns ==
    /\ pc \in {"start", "loop", "done"}
    /\ Len(entries) + Len(sequences) + Len(other_files) <= Len(input)
    /\ pc = "done" => entries = <<>>

----------------------------------------------------------------------------
(* Properties of FileSequence *)

\* C5: __getitem__(k) on a sequence of length L = last - first + 1 returns
\* filename(first + k), the k-th name enumerated, for 0 <= k < L; returns
\* filename(last - (-k) + 1), the same name as index L + k, for
\* -L <= k <= -1; and raises IndexError, returning no name, for k >= L or
\* k < -L.
C5_GetItem ==
    ret.op = "getitem" =>
        LET k == ret.arg
            L == Length(self)
        IN /\ (0 <= k /\ k < L) =>
                 /\ ret.raised = ""
                 /\ ret.value = Filename(self, self.first + k).value
                 /\ ret.value = Iterate(self)[k + 1]
           /\ (-L <= k /\ k <= -1) =>
                 /\ ret.raised = ""
                 /\ ret.value = Filename(self, self.last - (-k) + 1).value
                 /\ ret.value = Iterate(self)[L + k + 1]
           /\ (k >= L \/ k < -L) =>
                 /\ ret.raised = "IndexError"
                 /\ ret.value = <<>>

C5_Witness ==
    /\ ret.op = "getitem"
    /\ ret.arg < -1
    /\ ret.raised = ""
    /\ self.padding > 0

\* C8: filename(number) leaves the fields of the sequence unchanged; for
\* first <= number <= last it returns head + digits + tail where digits is
\* the decimal form of number, zero-padded on the left to width padding
\* when shorter and verbatim otherwise (so without leading zeros when
\* padding = 0); otherwise it raises IndexError.
C8_Filename ==
    [][ret'.op = "filename" =>
        LET number == ret'.arg
            digits == SubSeq(ret'.value, Len(self.head) + 1,
                             Len(ret'.value) - Len(self.tail))
        IN /\ self' = self
           /\ IF self.first <= number /\ number <= self.last
              THEN /\ ret'.raised = ""
                   /\ ret'.value = self.head \o digits \o self.tail
                   /\ \A i \in DOMAIN digits : IsDigit(digits[i])
                   /\ int(digits) = number
                   /\ Len(digits) = Max(self.padding, NumDigits(number))
              ELSE /\ ret'.raised = "IndexError"
                   /\ ret'.value = <<>>]_vars

C8_Witness ==
    /\ ret.op = "filename"
    /\ ret.raised = ""
    /\ self.padding > 0
    /\ NumDigits(ret.arg) > self.padding

====
